---- MODULE Spec2Model ----
(***************************************************************************)
(* Model of the in-memory todo service of examples/todo-service/main.py:   *)
(* the store (todos, current_id), the mutation handlers, the query and     *)
(* statistics handlers, and the derivation calculate_progress.             *)
(*                                                                         *)
(* Values that are None at run time are modelled as options: None is the   *)
(* empty tuple and Some(x) the one-element tuple <<x>>.                    *)
(***************************************************************************)
EXTENDS Integers, Sequences, FiniteSets, TLC

VARIABLES
    todos,       \* the dict todos, as the sequence of its values in insertion order
    current_id,  \* the global id counter
    now,         \* the latest reading of datetime.now(timezone.utc)
    resp,        \* the request just handled and the response it got
    hist         \* history: what has happened to each id ever handed out

vars == <<todos, current_id, now, resp, hist>>

----------------------------------------------------------------------------
(* Bounds of the model.                                                    *)

MaxId == 2         \* ids handed out in one behaviour
MaxTime == 1       \* latest clock reading
MaxVersion == 3    \* updates are applied while version < MaxVersion
MaxSubtasks == 50  \* longest subtask list of the derivation check
MaxBatch == 1      \* longest batch request of the mutation specification
MaxBatchLen == 3   \* longest batch request of the batch specification
MaxBatchId == 3    \* ids handed out in one behaviour of the batch specification
MaxSortId == 3     \* ids handed out in one behaviour of the sort specification
MaxPageId == 25    \* ids handed out in one behaviour of the page specification
MaxPage == 4       \* largest page number requested
MaxStatsTime == 3  \* latest clock reading of the statistics specification
MaxWalkId == 3     \* ids handed out in one behaviour of the page-walk specification

----------------------------------------------------------------------------
(* Options and small helpers.                                              *)

None == <<>>
Some(x) == <<x>>
IsNone(o) == o = <<>>
Get(o) == o[1]

Min(a, b) == IF a <= b THEN a ELSE b

Range(s) == {s[i] : i \in DOMAIN s}

(* Enum Status and enum Priority, in declaration order.                    *)
PENDING == "pending"
IN_PROGRESS == "in_progress"
COMPLETED == "completed"
BLOCKED == "blocked"
CANCELLED == "cancelled"
Status == <<PENDING, IN_PROGRESS, COMPLETED, BLOCKED, CANCELLED>>

Priority == <<"low", "medium", "high", "critical">>

----------------------------------------------------------------------------
(* IEEE 754 binary64 arithmetic on the operands calculate_progress uses.   *)
(* A positive double is a significand of MantBits bits, most significant   *)
(* first, and an exponent: value = significand * 2^exp.  Bit strings are   *)
(* tuples of 0 and 1, so no intermediate value exceeds the checker's       *)
(* machine integers.                                                       *)

MantBits == 53

RECURSIVE Reverse(_)
Reverse(s) == IF s = <<>> THEN <<>> ELSE Reverse(Tail(s)) \o <<Head(s)>>

RECURSIVE Zeros(_)
Zeros(n) == IF n <= 0 THEN <<>> ELSE <<0>> \o Zeros(n - 1)

(* Sum of two bit strings given least significant bit first.               *)
RECURSIVE AddLsb(_, _, _)
AddLsb(a, b, c) ==
    IF a = <<>> /\ b = <<>>
    THEN IF c = 1 THEN <<1>> ELSE <<>>
    ELSE LET x == IF a = <<>> THEN 0 ELSE Head(a)
             y == IF b = <<>> THEN 0 ELSE Head(b)
             s == x + y + c
         IN  <<s % 2>> \o AddLsb(IF a = <<>> THEN <<>> ELSE Tail(a),
                                 IF b = <<>> THEN <<>> ELSE Tail(b),
                                 s \div 2)

(* Sum of two bit strings, most significant bit first.                     *)
AddBits(a, b) == Reverse(AddLsb(Reverse(a), Reverse(b), 0))

(* The next k quotient bits of r / n for a remainder 0 <= r < n, and the   *)
(* remainder left after them.                                              *)
RECURSIVE DivBits(_, _, _)
DivBits(r, n, k) ==
    IF k = 0 THEN <<>>
    ELSE IF 2 * r >= n THEN <<1>> \o DivBits(2 * r - n, n, k - 1)
                       ELSE <<0>> \o DivBits(2 * r, n, k - 1)

RECURSIVE DivRem(_, _, _)
DivRem(r, n, k) ==
    IF k = 0 THEN r
    ELSE IF 2 * r >= n THEN DivRem(2 * r - n, n, k - 1)
                       ELSE DivRem(2 * r, n, k - 1)

(* Least s with n <= k * 2^s, for 1 <= k <= n.                             *)
RECURSIVE NormShift(_, _)
NormShift(k, n) == IF k >= n THEN 0 ELSE 1 + NormShift(2 * k, n)

RECURSIVE Pow2(_)
Pow2(e) == IF e = 0 THEN 1 ELSE 2 * Pow2(e - 1)

(* Round-to-nearest-even of a significand: bits kept, up says whether the  *)
(* discarded part is more than half a unit, tie whether it is exactly half.*)
(* A carry out of the top bit renormalises (exponent + 1).                 *)
RoundNearestEven(bits, exp, up, tie) ==
    LET odd == bits[Len(bits)] = 1
        inc == up \/ (tie /\ odd)
        sum == IF inc THEN AddBits(bits, <<1>>) ELSE bits
    IN  IF Len(sum) > Len(bits)
        THEN [mant |-> SubSeq(sum, 1, Len(bits)), exp |-> exp + 1]
        ELSE [mant |-> sum, exp |-> exp]

(* The double nearest to k / n, for integers 1 <= k <= n (line 341's       *)
(* completed / len(todo.subtasks)).                                        *)
FloatDiv(k, n) ==
    LET s    == NormShift(k, n)
        r0   == k * Pow2(s) - n
        bits == <<1>> \o DivBits(r0, n, MantBits - 1)
        rem  == DivRem(r0, n, MantBits - 1)
    IN  RoundNearestEven(bits, 0 - (MantBits - 1) - s, 2 * rem > n, 2 * rem = n)

(* The double nearest to x * 100.0: 100 = 64 + 32 + 4.                     *)
FloatMul100(x) ==
    LET m    == x.mant
        prod == AddBits(AddBits(m \o Zeros(6), m \o Zeros(5)), m \o Zeros(2))
        drop == Len(prod) - MantBits
        kept == SubSeq(prod, 1, MantBits)
        rest == SubSeq(prod, MantBits + 1, Len(prod))
        half == <<1>> \o Zeros(drop - 1)
        up   == rest[1] = 1 /\ rest # half
        tie  == rest = half
    IN  RoundNearestEven(kept, x.exp + drop, up, tie)

RECURSIVE BitsToInt(_)
BitsToInt(bits) ==
    IF bits = <<>> THEN 0
    ELSE 2 * BitsToInt(SubSeq(bits, 1, Len(bits) - 1)) + bits[Len(bits)]

(* int(x) for a positive double below 2^31: truncation toward zero.        *)
FloatToInt(x) ==
    LET keep == Len(x.mant) + x.exp
    IN  IF keep <= 0 THEN 0
        ELSE IF x.exp >= 0 THEN BitsToInt(x.mant \o Zeros(x.exp))
        ELSE BitsToInt(SubSeq(x.mant, 1, keep))

(* int((completed / total) * 100), lines 340-341.                          *)
PercentOf(completed, total) ==
    IF completed = 0 THEN 0
    ELSE FloatToInt(FloatMul100(FloatDiv(completed, total)))

(* PercentOf tabulated for the list lengths the model uses, so that each   *)
(* value is computed once.                                                 *)
PercentTable ==
    [total \in 1 .. MaxSubtasks |->
        [completed \in 0 .. total |-> PercentOf(completed, total)]]

----------------------------------------------------------------------------
(* The entity.  A stored Todo is a record of the fields the handlers read  *)
(* or derive: id, title, description, priority, status, due_date,          *)
(* subtasks, parent_id, metadata (created_at, updated_at, version),        *)
(* completed_at and progress_percent.  The remaining client fields         *)
(* (labels, reminders, recurrence, attachments, assignee_ids,              *)
(* estimated_minutes, actual_minutes) are stored and merged exactly as     *)
(* description is and are read by no handler; description stands for them. *)
(* A title or description is a tuple of characters.  A subtask keeps its   *)
(* completed flag and whether it is a Subtask model or the dict            *)
(* model_dump() turned it into.                                            *)

SubtaskModel(done) == [form |-> "model", completed |-> done]
SubtaskDict(done) == [form |-> "dict", completed |-> done]

(* Python truthiness of an optional list: None and [] are falsy.           *)
Truthy(optList) == ~IsNone(optList) /\ Get(optList) # <<>>

(* todo.status == Status.COMPLETED                                         *)
IsCompleted(todo) == todo.status = Some(COMPLETED)

CompletedCount(subtasks) ==
    Cardinality({i \in DOMAIN subtasks : subtasks[i].completed})

(* s.completed on a dict raises AttributeError (the subtasks of an update  *)
(* are what model_dump() returned, and model_copy does not validate).      *)
ProgressRaises(todo) ==
    Truthy(todo.subtasks)
    /\ \E i \in DOMAIN Get(todo.subtasks) : Get(todo.subtasks)[i].form = "dict"

calculate_progress(todo) ==
    IF ~Truthy(todo.subtasks)
    THEN IF IsCompleted(todo) THEN 100 ELSE 0
    ELSE PercentTable[Len(Get(todo.subtasks))][CompletedCount(Get(todo.subtasks))]

(* Metadata(): created_at and updated_at from two clock readings,          *)
(* version 1.                                                              *)
Metadata(t1, t2) == [created_at |-> t1, updated_at |-> t2, version |-> 1]

(* Todo(id=..., **todo.model_dump(), metadata=Metadata()): the validated   *)
(* entity, its subtasks Subtask models again, completed_at and             *)
(* progress_percent at their defaults.                                     *)
NewTodo(id, inp, t1, t2) ==
    [id               |-> id,
     title            |-> Some(inp.title),
     description      |-> inp.description,
     priority         |-> Some(inp.priority),
     status           |-> Some(inp.status),
     due_date         |-> inp.due_date,
     subtasks         |-> Some([i \in DOMAIN inp.subtasks |->
                                    SubtaskModel(inp.subtasks[i])]),
     parent_id        |-> inp.parent_id,
     metadata         |-> Metadata(t1, t2),
     completed_at     |-> None,
     progress_percent |-> 0]

WithProgress(todo) == [todo EXCEPT !.progress_percent = calculate_progress(todo)]

----------------------------------------------------------------------------
(* The store: the dict todos in insertion order.                           *)

Ids(ts) == {ts[i].id : i \in DOMAIN ts}
Has(ts, id) == id \in Ids(ts)
Lookup(ts, id) == ts[CHOOSE i \in DOMAIN ts : ts[i].id = id]

(* todos[id] = todo: a new key goes last, an existing key keeps its place. *)
Put(ts, id, todo) ==
    IF Has(ts, id)
    THEN [i \in DOMAIN ts |-> IF ts[i].id = id THEN todo ELSE ts[i]]
    ELSE Append(ts, todo)

(* del todos[id]                                                           *)
Remove(ts, id) == SelectSeq(ts, LAMBDA t : t.id # id)

----------------------------------------------------------------------------
(* History of each id ever stored: the number of successful updates, and   *)
(* how the todo entered completed if that is its status now.               *)

HistCreate(h, id, inp) ==
    [created |-> h.created \cup {id},
     updates |-> [i \in h.created \cup {id} |->
                    IF i = id THEN 0 ELSE h.updates[i]],
     via     |-> [i \in h.created \cup {id} |->
                    IF i = id
                    THEN IF inp.status = COMPLETED THEN "create" ELSE "none"
                    ELSE h.via[i]]]

HistUpdate(h, id, old, new) ==
    [h EXCEPT !.updates[id] = @ + 1,
              !.via[id] = IF ~IsCompleted(new) THEN "none"
                          ELSE IF IsCompleted(old) THEN @ ELSE "update"]

Idle == [op |-> "none"]

Init ==
    /\ todos = <<>>
    /\ current_id = 0
    /\ now = 0
    /\ resp = Idle
    /\ hist = [created |-> {}, updates |-> <<>>, via |-> <<>>]

----------------------------------------------------------------------------
(* POST /todos                                                             *)

CreateTodo(todo, t1, t2) ==
    LET id       == current_id + 1
        new_todo == WithProgress(NewTodo(id, todo, t1, t2))
    IN  /\ current_id' = id
        /\ todos' = Put(todos, id, new_todo)
        /\ now' = t2
        /\ resp' = [op |-> "create", code |-> "ok", id |-> id]
        /\ hist' = HistCreate(hist, id, todo)

----------------------------------------------------------------------------
(* PUT /todos/{todo_id}.  A TodoUpdate is the pydantic object: every field *)
(* with its value (None by default) and fields_set, the fields the client  *)
(* supplied.                                                               *)

Unset ==
    [fields_set |-> {}, title |-> None, description |-> None,
     priority |-> None, status |-> None, due_date |-> None,
     subtasks |-> None, parent_id |-> None]

SetField(u, f, v) == [u EXCEPT ![f] = v, !.fields_set = @ \cup {f}]

(* model_dump(): a nested Subtask model becomes a dict.                    *)
Dump(f, v) ==
    IF f = "subtasks" /\ ~IsNone(v)
    THEN Some([i \in DOMAIN Get(v) |-> SubtaskDict(Get(v)[i])])
    ELSE v

(* The client fields of TodoUpdate that the model keeps.                    *)
ClientFields ==
    {"title", "description", "priority", "status", "due_date", "subtasks",
     "parent_id"}

(* Mutant of the dump: model_dump() without exclude_unset, so that a field *)
(* the client did not supply is dumped with its default None.              *)
ModelDumpAll(todo_update) ==
    [f \in ClientFields |-> Dump(f, todo_update[f])]

(* todo_update.model_dump(exclude_unset=True)                              *)
ModelDumpExcludeUnset(todo_update) ==
    [f \in todo_update.fields_set |-> Dump(f, todo_update[f])]

(* Mutant of the metadata copy: updated_at is bumped, the version is not.  *)
UpdatedMetadataSameVersion(stored_todo, t1) ==
    [stored_todo.metadata EXCEPT !.updated_at = t1]

(* Lines 613-618: the metadata copy with updated_at and version + 1.       *)
UpdatedMetadata(stored_todo, t1) ==
    [stored_todo.metadata EXCEPT !.updated_at = t1, !.version = @ + 1]

(* Mutant of the transition rule: completed_at is set on every update      *)
(* whose status is completed, also when the todo was completed already.    *)
CompletedAtEager(stored_todo, update_data, t2) ==
    IF "status" \in DOMAIN update_data
    THEN IF update_data["status"] = Some(COMPLETED) THEN Some(t2)
         ELSE IF IsCompleted(stored_todo) THEN None
         ELSE stored_todo.completed_at
    ELSE stored_todo.completed_at

(* Lines 620-629: the completed_at transition rule.                        *)
CompletedAtAfter(stored_todo, update_data, t2) ==
    IF "status" \in DOMAIN update_data
    THEN LET new_status == update_data["status"]
         IN  IF new_status = Some(COMPLETED) /\ ~IsCompleted(stored_todo)
             THEN Some(t2)
             ELSE IF new_status # Some(COMPLETED) /\ IsCompleted(stored_todo)
             THEN None
             ELSE stored_todo.completed_at
    ELSE stored_todo.completed_at

(* Whether the handler reads the clock a second time (line 626).           *)
ReadsClockTwice(stored_todo, update_data) ==
    /\ "status" \in DOMAIN update_data
    /\ update_data["status"] = Some(COMPLETED)
    /\ ~IsCompleted(stored_todo)

(* Lines 631-633: model_copy(update={**update_data, metadata,              *)
(* completed_at}), without validation.                                     *)
ModelCopy(stored_todo, update_data, metadata, completed_at) ==
    [f \in DOMAIN stored_todo |->
        CASE f = "completed_at"        -> completed_at
          [] f = "metadata"            -> metadata
          [] f \in DOMAIN update_data  -> update_data[f]
          [] OTHER                     -> stored_todo[f]]

(* Mutant of the existence check: the id counter is advanced before the   *)
(* check rejects the request.                                              *)
UpdateMissingAllocates(todo_id, todo_update) ==
    /\ resp' = [op |-> "update", id |-> todo_id, data |-> todo_update,
                code |-> "not_found"]
    /\ current_id' = current_id + 1
    /\ UNCHANGED <<todos, now, hist>>

(* Lines 606-607: the existence check of update_todo.                      *)
UpdateMissing(todo_id, todo_update) ==
    /\ resp' = [op |-> "update", id |-> todo_id, data |-> todo_update,
                code |-> "not_found"]
    /\ UNCHANGED <<todos, current_id, now, hist>>

UpdateTodo(todo_id, todo_update, t1, t2) ==
    LET req == [op |-> "update", id |-> todo_id, data |-> todo_update]
    IN  IF ~Has(todos, todo_id)
        THEN UpdateMissing(todo_id, todo_update)
        ELSE LET stored_todo  == Lookup(todos, todo_id)
                 update_data  == ModelDumpExcludeUnset(todo_update)
                 metadata     == UpdatedMetadata(stored_todo, t1)
                 completed_at == CompletedAtAfter(stored_todo, update_data, t2)
                 updated_todo == ModelCopy(stored_todo, update_data,
                                           metadata, completed_at)
                 last         == IF ReadsClockTwice(stored_todo, update_data)
                                 THEN t2 ELSE t1
             IN  IF ProgressRaises(updated_todo)
                 THEN /\ resp' = req @@ [code |-> "raised"]
                      /\ now' = last
                      /\ UNCHANGED <<todos, current_id, hist>>
                 ELSE /\ todos' = Put(todos, todo_id, WithProgress(updated_todo))
                      /\ resp' = req @@ [code |-> "ok"]
                      /\ now' = last
                      /\ hist' = HistUpdate(hist, todo_id, stored_todo,
                                            updated_todo)
                      /\ UNCHANGED current_id

----------------------------------------------------------------------------
(* DELETE /todos/{todo_id} and GET /todos/{todo_id}                        *)

(* Mutant of delete: the id counter falls back to the largest id left.     *)
DeleteTodoRollback(todo_id) ==
    IF ~Has(todos, todo_id)
    THEN /\ resp' = [op |-> "delete", id |-> todo_id, code |-> "not_found"]
         /\ UNCHANGED <<todos, current_id, now, hist>>
    ELSE /\ todos' = Remove(todos, todo_id)
         /\ current_id' = IF Remove(todos, todo_id) = <<>> THEN 0
                          ELSE CHOOSE m \in Ids(Remove(todos, todo_id)) :
                                 \A k \in Ids(Remove(todos, todo_id)) : k <= m
         /\ resp' = [op |-> "delete", id |-> todo_id, code |-> "ok"]
         /\ UNCHANGED <<now, hist>>

(* Mutant of delete: the todos whose parent_id refers to the deleted todo   *)
(* are deleted with it.                                                    *)
DeleteTodoCascade(todo_id) ==
    IF ~Has(todos, todo_id)
    THEN /\ resp' = [op |-> "delete", id |-> todo_id, code |-> "not_found"]
         /\ UNCHANGED <<todos, current_id, now, hist>>
    ELSE /\ todos' = SelectSeq(todos, LAMBDA t : /\ t.id # todo_id
                                                 /\ t.parent_id # Some(todo_id))
         /\ resp' = [op |-> "delete", id |-> todo_id, code |-> "ok"]
         /\ UNCHANGED <<current_id, now, hist>>

DeleteTodo(todo_id) ==
    IF ~Has(todos, todo_id)
    THEN /\ resp' = [op |-> "delete", id |-> todo_id, code |-> "not_found"]
         /\ UNCHANGED <<todos, current_id, now, hist>>
    ELSE /\ todos' = Remove(todos, todo_id)
         /\ resp' = [op |-> "delete", id |-> todo_id, code |-> "ok"]
         /\ UNCHANGED <<current_id, now, hist>>

(* Mutant of the read: a todo that is found is taken out of the dict and   *)
(* put back, which moves it to the end of the insertion order.             *)
GetTodoReinserting(todo_id) ==
    /\ resp' = [op |-> "get", id |-> todo_id,
                code |-> IF Has(todos, todo_id) THEN "ok" ELSE "not_found",
                out |-> IF Has(todos, todo_id)
                        THEN Some(Lookup(todos, todo_id)) ELSE None]
    /\ todos' = IF Has(todos, todo_id)
                THEN Append(Remove(todos, todo_id), Lookup(todos, todo_id))
                ELSE todos
    /\ UNCHANGED <<current_id, now, hist>>

GetTodo(todo_id) ==
    /\ resp' = [op |-> "get", id |-> todo_id,
                code |-> IF Has(todos, todo_id) THEN "ok" ELSE "not_found",
                out |-> IF Has(todos, todo_id)
                        THEN Some(Lookup(todos, todo_id)) ELSE None]
    /\ UNCHANGED <<todos, current_id, now, hist>>

----------------------------------------------------------------------------
(* POST /todos/batch.  An item is a TodoCreate (todo) and whether          *)
(* building the Todo from it raises (raises), which the handler catches    *)
(* per item; ticks[i] are the two clock readings of item i's Metadata().   *)

RECURSIVE BatchCreateLoop(_, _, _, _)
BatchCreateLoop(st, items, ticks, i) ==
    IF i > Len(items) THEN st
    ELSE LET id   == st.current_id + 1
             item == items[i]
             new_todo == WithProgress(NewTodo(id, item.todo,
                                              ticks[i][1], ticks[i][2]))
         IN  IF item.raises
             THEN BatchCreateLoop(
                    [st EXCEPT !.current_id = id,
                               !.failed = Append(@, i - 1)],
                    items, ticks, i + 1)
             ELSE BatchCreateLoop(
                    [st EXCEPT !.current_id = id,
                               !.todos = Put(@, id, new_todo),
                               !.created = Append(@, id),
                               !.hist = HistCreate(@, id, item.todo)],
                    items, ticks, i + 1)

BatchCreateTodos(items, ticks) ==
    LET st == BatchCreateLoop(
                [todos |-> todos, current_id |-> current_id, hist |-> hist,
                 created |-> <<>>, failed |-> <<>>],
                items, ticks, 1)
    IN  /\ todos' = st.todos
        /\ current_id' = st.current_id
        /\ hist' = st.hist
        /\ now' = ticks[Len(ticks)][2]
        /\ resp' = [op |-> "batch_create", n |-> Len(items),
                    created |-> st.created, failed |-> st.failed,
                    total_created |-> Len(st.created),
                    total_failed |-> Len(st.failed)]

----------------------------------------------------------------------------
(* DELETE /todos/batch                                                     *)

(* Mutant of the loop: presence is tested against the store as it was     *)
(* when the request arrived, not as the loop has left it.                  *)
RECURSIVE BatchDeleteLoopSnapshot(_, _, _)
BatchDeleteLoopSnapshot(st, ids, i) ==
    IF i > Len(ids) THEN st
    ELSE IF Has(todos, ids[i])
    THEN BatchDeleteLoopSnapshot([st EXCEPT !.todos = Remove(@, ids[i]),
                                            !.deleted_ids = Append(@, ids[i])],
                                 ids, i + 1)
    ELSE BatchDeleteLoopSnapshot([st EXCEPT !.not_found_ids = Append(@, ids[i])],
                                 ids, i + 1)

RECURSIVE BatchDeleteLoop(_, _, _)
BatchDeleteLoop(st, ids, i) ==
    IF i > Len(ids) THEN st
    ELSE IF Has(st.todos, ids[i])
    THEN BatchDeleteLoop([st EXCEPT !.todos = Remove(@, ids[i]),
                                    !.deleted_ids = Append(@, ids[i])],
                         ids, i + 1)
    ELSE BatchDeleteLoop([st EXCEPT !.not_found_ids = Append(@, ids[i])],
                         ids, i + 1)

BatchDeleteTodos(ids) ==
    LET st == BatchDeleteLoop(
                [todos |-> todos, deleted_ids |-> <<>>, not_found_ids |-> <<>>],
                ids, 1)
    IN  /\ todos' = st.todos
        /\ resp' = [op |-> "batch_delete", ids |-> ids,
                    deleted_ids |-> st.deleted_ids,
                    not_found_ids |-> st.not_found_ids,
                    total_deleted |-> Len(st.deleted_ids)]
        /\ UNCHANGED <<current_id, now, hist>>

----------------------------------------------------------------------------
(* GET /todos.  A datetime is a timezone-aware instant, counted in clock   *)
(* ticks.  params holds the query parameters after FastAPI's validation    *)
(* (page >= 1, 1 <= page_size <= 100); an absent filter is None.           *)

FarFuture == 5   \* datetime(9999, 12, 31, tzinfo=timezone.utc), in ticks

(* str.lower() over the alphabet of the model's titles and search terms.   *)
ToLower(c) == CASE c = "A" -> "a" [] c = "B" -> "b" [] OTHER -> c
Lower(str) == [i \in DOMAIN str |-> ToLower(str[i])]

(* needle in hay                                                           *)
Contains(hay, needle) ==
    \E k \in 0 .. Len(hay) - Len(needle) :
        SubSeq(hay, k + 1, k + Len(needle)) = needle

(* Lines 411-412, for a todo whose title is a string.                      *)
Matches(t, search_lower) ==
    \/ Contains(Lower(Get(t.title)), search_lower)
    \/ /\ ~IsNone(t.description)
       /\ Get(t.description) # <<>>
       /\ Contains(Lower(Get(t.description)), search_lower)

(* Lines 422-424: has a due date, is past due, and is not completed.       *)
Overdue(t, at) ==
    /\ ~IsNone(t.due_date)
    /\ Get(t.due_date) < at
    /\ ~IsCompleted(t)

FilterStatus(result, params) ==
    IF IsNone(params.status) THEN result
    ELSE SelectSeq(result, LAMBDA t : t.status = params.status)

FilterPriority(result, params) ==
    IF IsNone(params.priority) THEN result
    ELSE SelectSeq(result, LAMBDA t : t.priority = params.priority)

(* if search: an empty search string is falsy.                             *)
FilterSearch(result, params) ==
    IF IsNone(params.search) \/ Get(params.search) = <<>> THEN result
    ELSE SelectSeq(result, LAMBDA t : Matches(t, Lower(Get(params.search))))

FilterSubtasks(result, params) ==
    IF IsNone(params.has_subtasks) THEN result
    ELSE SelectSeq(result,
                   LAMBDA t : Truthy(t.subtasks) = Get(params.has_subtasks))

(* Mutant of the overdue filter: the false branch keeps every todo that is *)
(* not overdue, a todo without a due date included.                        *)
FilterOverdueSymmetric(result, params, at) ==
    IF IsNone(params.is_overdue) THEN result
    ELSE IF Get(params.is_overdue)
    THEN SelectSeq(result, LAMBDA t : Overdue(t, at))
    ELSE SelectSeq(result, LAMBDA t : ~Overdue(t, at))

(* Lines 416-434.                                                          *)
FilterOverdue(result, params, at) ==
    IF IsNone(params.is_overdue) THEN result
    ELSE IF Get(params.is_overdue)
    THEN SelectSeq(result, LAMBDA t : Overdue(t, at))
    ELSE SelectSeq(result,
                   LAMBDA t : ~IsNone(t.due_date) /\ ~Overdue(t, at))

(* t.title.lower() raises AttributeError on a title that is None.          *)
SearchRaises(ts, params) ==
    /\ ~IsNone(params.search) /\ Get(params.search) # <<>>
    /\ \E i \in DOMAIN FilterPriority(FilterStatus(ts, params), params) :
          IsNone(FilterPriority(FilterStatus(ts, params), params)[i].title)

(* Lines 399-434: the filters, in order.                                   *)
Filtered(ts, params, at) ==
    FilterOverdue(
        FilterSubtasks(
            FilterSearch(FilterPriority(FilterStatus(ts, params), params),
                         params),
            params),
        params, at)

(* priority_order = {p: i for i, p in enumerate(Priority)}                 *)
PriorityOrder(p) == (CHOOSE i \in DOMAIN Priority : Priority[i] = p) - 1

(* sort_key_map.get(sort_by, sort_key_map["created_at"]) applied to t.     *)
SortKey(sort_by, t) ==
    CASE sort_by = "due_date" ->
            IF IsNone(t.due_date) THEN FarFuture ELSE Get(t.due_date)
      [] sort_by = "priority" -> PriorityOrder(Get(t.priority))
      [] OTHER -> t.metadata.created_at

(* priority_order[t.priority] raises KeyError on a priority that is None.  *)
SortRaises(result, sort_by) ==
    sort_by = "priority" /\ \E i \in DOMAIN result : IsNone(result[i].priority)

(* x placed after the last entry whose key is not greater than x's.        *)
RECURSIVE InsertSorted(_, _, _)
InsertSorted(sorted, x, sort_by) ==
    IF sorted = <<>> THEN <<x>>
    ELSE IF SortKey(sort_by, Head(sorted)) <= SortKey(sort_by, x)
    THEN <<Head(sorted)>> \o InsertSorted(Tail(sorted), x, sort_by)
    ELSE <<x>> \o sorted

(* A stable ascending sort.                                                *)
RECURSIVE StableSort(_, _)
StableSort(list, sort_by) ==
    IF list = <<>> THEN <<>>
    ELSE InsertSorted(StableSort(SubSeq(list, 1, Len(list) - 1), sort_by),
                      list[Len(list)], sort_by)

(* Mutant of the sort: a descending sort is the ascending sort reversed,   *)
(* which reverses the order of equal keys as well.                         *)
SortedThenReversed(result, sort_by, sort_order) ==
    IF sort_order = "desc"
    THEN Reverse(StableSort(result, sort_by))
    ELSE StableSort(result, sort_by)

(* result.sort(key=sort_func, reverse=(sort_order == "desc")): a reversed  *)
(* sort reverses the list, sorts it stably and reverses it again.          *)
Sorted(result, sort_by, sort_order) ==
    IF sort_order = "desc"
    THEN Reverse(StableSort(Reverse(result), sort_by))
    ELSE StableSort(result, sort_by)

(* Mutant of line 450: the quotient rounded down.                          *)
TotalPagesFloor(total, page_size) == total \div page_size

(* Line 450.                                                               *)
TotalPages(total, page_size) ==
    IF total > 0 THEN (total + page_size - 1) \div page_size ELSE 0

(* Mutant of the slice: a start past the end of the list is moved back to  *)
(* the last full window.                                                   *)
SliceClamped(result, start, end) ==
    IF start >= Len(result)
    THEN SubSeq(result, Len(result) - Min(end - start, Len(result)) + 1,
                Len(result))
    ELSE SubSeq(result, start + 1, Min(end, Len(result)))

(* Mutant of the slice: the entry at index end is included, so a page      *)
(* ends with the first entry of the next one.                              *)
SliceInclusive(result, start, end) ==
    SubSeq(result, Min(start, Len(result)) + 1, Min(end + 1, Len(result)))

(* result[start:end]                                                       *)
Slice(result, start, end) ==
    SubSeq(result, Min(start, Len(result)) + 1, Min(end, Len(result)))

(* The defaults of the query parameters, lines 378-386.                    *)
DefaultParams ==
    [page |-> 1, page_size |-> 20, status |-> None, priority |-> None,
     search |-> None, has_subtasks |-> None, is_overdue |-> None,
     sort_by |-> "created_at", sort_order |-> "desc"]

(* The response lists the stored todos it returns by their ids.            *)
ListTodos(params, at) ==
    /\ now' = at
    /\ UNCHANGED <<todos, current_id, hist>>
    /\ IF SearchRaises(todos, params)
          \/ SortRaises(Filtered(todos, params, at), params.sort_by)
       THEN resp' = [op |-> "list", params |-> params, code |-> "raised"]
       ELSE LET result == Sorted(Filtered(todos, params, at),
                                 params.sort_by, params.sort_order)
                total  == Len(result)
                total_pages == TotalPages(total, params.page_size)
                start  == (params.page - 1) * params.page_size
                end    == start + params.page_size
                items  == Slice(result, start, end)
            IN  resp' = [op |-> "list", params |-> params, code |-> "ok",
                         items |-> [i \in DOMAIN items |-> items[i].id],
                         total |-> total,
                         page |-> params.page,
                         page_size |-> params.page_size,
                         total_pages |-> total_pages,
                         has_next |-> params.page < total_pages,
                         has_previous |-> params.page > 1]

----------------------------------------------------------------------------
(* GET /todos/stats.  timedelta(days=7) is Week clock ticks, so a tick is  *)
(* half a week and a duration of d ticks is d * MinutesPerTick minutes.    *)
(* The float quotient sum(completion_times) / len(completion_times) is     *)
(* kept as the pair <<sum, len>>.                                          *)

Week == 2

MinutesPerTick == (7 * 24 * 60) \div Week

(* sum(...) over the entries of a sequence of numbers.                     *)
RECURSIVE Sum(_)
Sum(xs) == IF xs = <<>> THEN 0 ELSE Head(xs) + Sum(Tail(xs))

(* Lines 493-497.                                                          *)
StatsOverdue(todo, at) ==
    /\ ~IsNone(todo.due_date)
    /\ Get(todo.due_date) < at
    /\ ~IsCompleted(todo)

(* Line 500: todo.completed_at and todo.completed_at >= week_ago           *)
CompletedThisWeek(todo, week_ago) ==
    ~IsNone(todo.completed_at) /\ Get(todo.completed_at) >= week_ago

(* Lines 503-506: the duration of one counted todo, in minutes.            *)
CompletionTime(todo) ==
    (Get(todo.completed_at) - todo.metadata.created_at) * MinutesPerTick

(* todo.status.value and todo.priority.value raise AttributeError on None. *)
StatsRaises(ts) ==
    \E i \in DOMAIN ts : IsNone(ts[i].status) \/ IsNone(ts[i].priority)

GetStats(at) ==
    LET week_ago  == at - Week
        all_todos == todos
        counted   == SelectSeq(all_todos,
                               LAMBDA t : CompletedThisWeek(t, week_ago))
        completion_times == [i \in DOMAIN counted |-> CompletionTime(counted[i])]
    IN  /\ now' = at
        /\ UNCHANGED <<todos, current_id, hist>>
        /\ IF StatsRaises(all_todos)
           THEN resp' = [op |-> "stats", code |-> "raised"]
           ELSE resp' =
                  [op |-> "stats", code |-> "ok",
                   total_todos |-> Len(all_todos),
                   by_status |->
                     [s \in Range(Status) |->
                        Cardinality({i \in DOMAIN all_todos :
                                        all_todos[i].status = Some(s)})],
                   by_priority |->
                     [p \in Range(Priority) |->
                        Cardinality({i \in DOMAIN all_todos :
                                        all_todos[i].priority = Some(p)})],
                   overdue_count |->
                     Cardinality({i \in DOMAIN all_todos :
                                     StatsOverdue(all_todos[i], at)}),
                   completed_this_week |-> Len(counted),
                   average_completion_time_minutes |->
                     IF completion_times # <<>>
                     THEN Some(<<Sum(completion_times), Len(completion_times)>>)
                     ELSE None]

----------------------------------------------------------------------------
(* Inputs.                                                                 *)

BaseInput ==
    [title |-> <<"a">>, description |-> None, priority |-> "medium",
     status |-> PENDING, due_date |-> None, subtasks |-> <<>>,
     parent_id |-> None]

Clock == now .. MaxTime

(* Every tick pair of a batch of n items read at one clock value.          *)
Ticks(n, t) == [i \in 1 .. n |-> <<t, t>>]

(* Tuples over S of length 1 .. n.                                         *)
SeqsUpTo(S, n) == UNION {[1 .. k -> S] : k \in 1 .. n}

CanUpdate(id) == Has(todos, id) => Lookup(todos, id).metadata.version < MaxVersion

(* The readings the second datetime.now() of an update may return: the     *)
(* handler reads the clock again only on a transition into completed.      *)
SecondReading(id, u, t1) ==
    IF Has(todos, id)
       /\ ReadsClockTwice(Lookup(todos, id), ModelDumpExcludeUnset(u))
    THEN t1 .. MaxTime
    ELSE {t1}

----------------------------------------------------------------------------
(* The mutation specification: all five mutating handlers over todos that  *)
(* differ in status and subtasks.                                          *)

CreateInputs ==
    {[BaseInput EXCEPT !.status = s] : s \in {PENDING, COMPLETED}}
    \cup {[BaseInput EXCEPT !.subtasks = <<TRUE, FALSE>>]}

UpdateInputs ==
    {SetField(Unset, "status", Some(s)) : s \in {IN_PROGRESS, COMPLETED}}
    \cup {SetField(Unset, "subtasks", Some(st)) : st \in {<<>>, <<TRUE>>}}
    \cup {SetField(SetField(Unset, "status", Some(COMPLETED)),
                   "subtasks", Some(<<TRUE>>))}

BatchItems ==
    {[todo |-> [BaseInput EXCEPT !.status = s], raises |-> r] :
        s \in {PENDING, COMPLETED}, r \in BOOLEAN}

DoCreate ==
    \E todo \in CreateInputs : \E t \in Clock :
        current_id < MaxId /\ CreateTodo(todo, t, t)

DoUpdate ==
    \E id \in 1 .. MaxId : \E u \in UpdateInputs :
    \E t1 \in Clock : \E t2 \in SecondReading(id, u, t1) :
        CanUpdate(id) /\ UpdateTodo(id, u, t1, t2)

DoDelete == \E id \in 1 .. MaxId : DeleteTodo(id)

DoBatchCreate ==
    \E items \in SeqsUpTo(BatchItems, MaxBatch) : \E t \in Clock :
        current_id + Len(items) <= MaxId
        /\ BatchCreateTodos(items, Ticks(Len(items), t))

DoBatchDelete ==
    \E ids \in SeqsUpTo(1 .. MaxId, MaxBatch) : BatchDeleteTodos(ids)

Next == DoCreate \/ DoUpdate \/ DoDelete \/ DoBatchCreate \/ DoBatchDelete

Spec == Init /\ [][Next]_vars

----------------------------------------------------------------------------
(* The derivation specification: one stored todo at a time, created with   *)
(* every subtask list of up to MaxSubtasks subtasks of which the first K   *)
(* are completed, then updated in status or deleted.                       *)

FirstDone(n, k) == [i \in 1 .. n |-> i <= k]

ProgressInputs ==
    {[BaseInput EXCEPT !.status = p[1], !.subtasks = FirstDone(p[2], p[3])] :
        p \in {q \in {PENDING, COMPLETED} \X (0 .. MaxSubtasks)
                                         \X (0 .. MaxSubtasks) :
                  q[3] <= q[2]}}

ProgressCreate ==
    \E todo \in ProgressInputs :
        todos = <<>> /\ current_id < MaxId /\ CreateTodo(todo, now, now)

ProgressUpdate ==
    \E id \in 1 .. MaxId :
        /\ Has(todos, id)
        /\ CanUpdate(id)
        /\ UpdateTodo(id, SetField(Unset, "status", Some(COMPLETED)), now, now)

ProgressDelete == \E id \in 1 .. MaxId : Has(todos, id) /\ DeleteTodo(id)

NextProgress == ProgressCreate \/ ProgressUpdate \/ ProgressDelete

SpecProgress == Init /\ [][NextProgress]_vars

----------------------------------------------------------------------------
(* The batch specification: batch requests of up to MaxBatchLen entries    *)
(* over MaxBatchId ids.  An item is the plain todo, built with or without  *)
(* an exception, or a todo with MaxSubtasks subtasks of which 29 are       *)
(* completed.                                                              *)

BatchSpecItems ==
    {[todo |-> BaseInput, raises |-> r] : r \in BOOLEAN}
    \cup {[todo |-> [BaseInput EXCEPT !.subtasks = FirstDone(MaxSubtasks, 29)],
           raises |-> FALSE]}

BatchSpecCreate ==
    \E t \in Clock : current_id < MaxBatchId /\ CreateTodo(BaseInput, t, t)

BatchSpecDelete == \E id \in 1 .. MaxBatchId : DeleteTodo(id)

BatchSpecBatchCreate ==
    \E items \in SeqsUpTo(BatchSpecItems, MaxBatchLen) : \E t \in Clock :
        current_id + Len(items) <= MaxBatchId
        /\ BatchCreateTodos(items, Ticks(Len(items), t))

BatchSpecBatchDelete ==
    \E ids \in SeqsUpTo(1 .. MaxBatchId, MaxBatchLen) : BatchDeleteTodos(ids)

NextBatch ==
    \/ BatchSpecCreate
    \/ BatchSpecDelete
    \/ BatchSpecBatchCreate
    \/ BatchSpecBatchDelete

SpecBatch == Init /\ [][NextBatch]_vars

----------------------------------------------------------------------------
(* The query specification: todos that differ in due date and status,      *)
(* listed under the overdue and status filters.                            *)

QueryInputs ==
    {[BaseInput EXCEPT !.status = s, !.due_date = d] :
        s \in {PENDING, COMPLETED},
        d \in {None} \cup {Some(t) : t \in 0 .. MaxTime}}

QueryParams ==
    {[DefaultParams EXCEPT !.is_overdue = o, !.status = s] :
        o \in {None, Some(TRUE), Some(FALSE)},
        s \in {None, Some(PENDING)}}

QueryCreate ==
    \E todo \in QueryInputs : \E t \in Clock :
        current_id < MaxId /\ CreateTodo(todo, t, t)

QueryUpdate ==
    \E id \in 1 .. MaxId : \E t1 \in Clock :
    \E t2 \in SecondReading(id, SetField(Unset, "status", Some(COMPLETED)), t1) :
        /\ CanUpdate(id)
        /\ UpdateTodo(id, SetField(Unset, "status", Some(COMPLETED)), t1, t2)

QueryDelete == \E id \in 1 .. MaxId : DeleteTodo(id)

QueryGet == \E id \in 1 .. MaxId : GetTodo(id)

QueryList == \E params \in QueryParams : \E t \in Clock : ListTodos(params, t)

NextQuery == QueryCreate \/ QueryUpdate \/ QueryDelete \/ QueryGet \/ QueryList

SpecQuery == Init /\ [][NextQuery]_vars

----------------------------------------------------------------------------
(* The deletion specification: todos with and without a parent_id, created *)
(* at any clock reading, deleted and fetched by id.                        *)

DeleteInputs ==
    {[BaseInput EXCEPT !.parent_id = p] :
        p \in {None} \cup {Some(i) : i \in 1 .. MaxId}}

DeleteSpecCreate ==
    \E todo \in DeleteInputs : \E t \in Clock :
        current_id < MaxId /\ CreateTodo(todo, t, t)

DeleteSpecDelete == \E id \in 1 .. MaxId : DeleteTodo(id)

DeleteSpecGet == \E id \in 1 .. MaxId : GetTodo(id)

NextDelete == DeleteSpecCreate \/ DeleteSpecDelete \/ DeleteSpecGet

SpecDelete == Init /\ [][NextDelete]_vars

----------------------------------------------------------------------------
(* The merge specification: a plain todo and one with every client field   *)
(* set, updated one or two fields at a time.                               *)

RichInput ==
    [title |-> <<"b">>, description |-> Some(<<"a">>), priority |-> "high",
     status |-> COMPLETED, due_date |-> Some(0), subtasks |-> <<TRUE>>,
     parent_id |-> Some(1)]

MergeUpdates ==
    {SetField(Unset, "title", Some(<<"a", "b">>)),
     SetField(Unset, "description", None),
     SetField(Unset, "status", Some(COMPLETED)),
     SetField(Unset, "status", Some(PENDING)),
     SetField(Unset, "subtasks", Some(<<>>)),
     SetField(SetField(Unset, "due_date", Some(MaxTime)), "priority", Some("low"))}

MergeCreate ==
    \E todo \in {BaseInput, RichInput} :
        current_id < MaxId /\ CreateTodo(todo, now, now)

MergeUpdate ==
    \E id \in 1 .. MaxId : \E u \in MergeUpdates :
    \E t1 \in Clock : \E t2 \in SecondReading(id, u, t1) :
        CanUpdate(id) /\ UpdateTodo(id, u, t1, t2)

MergeDelete == \E id \in 1 .. MaxId : DeleteTodo(id)

NextMerge == MergeCreate \/ MergeUpdate \/ MergeDelete

SpecMerge == Init /\ [][NextMerge]_vars

----------------------------------------------------------------------------
(* The sort specification: todos that differ in due date, priority and     *)
(* creation time, listed under every sort key and direction.  A due date   *)
(* is absent, early, or an instant of 31 December 9999 after midnight,     *)
(* which is later than far_future.                                         *)

LastInstant == FarFuture + 1

SortInputs ==
    {[BaseInput EXCEPT !.due_date = d, !.priority = p] :
        d \in {None, Some(0), Some(LastInstant)}, p \in {"low", "high"}}

SortParams ==
    {[DefaultParams EXCEPT !.sort_by = k, !.sort_order = o] :
        k \in {"created_at", "due_date", "priority", "title"},
        o \in {"asc", "desc"}}

SortCreate ==
    \E todo \in SortInputs : \E t \in Clock :
        current_id < MaxSortId /\ CreateTodo(todo, t, t)

SortDelete == \E id \in 1 .. MaxSortId : Has(todos, id) /\ DeleteTodo(id)

SortList == \E params \in SortParams : ListTodos(params, now)

NextSort == SortCreate \/ SortDelete \/ SortList

SpecSort == Init /\ [][NextSort]_vars

----------------------------------------------------------------------------
(* The page specification: up to MaxPageId plain todos, listed with and    *)
(* without a status filter under the smallest, the largest and a medium    *)
(* page size.                                                              *)

PageSizes == {1, 10, 100}

PageParams ==
    {[DefaultParams EXCEPT !.page = p, !.page_size = sz, !.status = st] :
        p \in 1 .. MaxPage, sz \in PageSizes,
        st \in {None, Some(PENDING), Some(COMPLETED)}}

PageCreate == current_id < MaxPageId /\ CreateTodo(BaseInput, now, now)

PageList == \E params \in PageParams : ListTodos(params, now)

NextPage == PageCreate \/ PageList

SpecPage == Init /\ [][NextPage]_vars

----------------------------------------------------------------------------
(* The statistics specification: todos created pending or completed,       *)
(* moved into and out of completed or given an explicit null status, and   *)
(* counted at clock readings up to MaxStatsTime.  Only the statistics      *)
(* request advances the clock.                                             *)

StatsClock == now .. MaxStatsTime

StatsInputs ==
    {[BaseInput EXCEPT !.status = s, !.priority = p] :
        s \in {PENDING, COMPLETED}, p \in {"medium", "critical"}}

StatsUpdates ==
    {SetField(Unset, "status", Some(s)) : s \in {PENDING, COMPLETED}}
    \cup {SetField(Unset, "status", None)}

StatsCreate ==
    \E todo \in StatsInputs :
        current_id < MaxId /\ CreateTodo(todo, now, now)

StatsUpdate ==
    \E id \in 1 .. MaxId : \E u \in StatsUpdates :
        Has(todos, id) /\ CanUpdate(id) /\ UpdateTodo(id, u, now, now)

StatsDelete == \E id \in 1 .. MaxId : Has(todos, id) /\ DeleteTodo(id)

StatsGet == \E t \in StatsClock : GetStats(t)

NextStats == StatsCreate \/ StatsUpdate \/ StatsDelete \/ StatsGet

SpecStats == Init /\ [][NextStats]_vars

----------------------------------------------------------------------------
(* The entity specification: the five mutating handlers, with updates that *)
(* supply title, priority or status as a value or explicitly as null.      *)

EntityUpdates ==
    {SetField(Unset, "title", v) : v \in {None, Some(<<"b">>)}}
    \cup {SetField(Unset, "priority", v) : v \in {None, Some("high")}}
    \cup {SetField(Unset, "status", v) : v \in {None, Some(BLOCKED)}}

EntityCreate == current_id < MaxId /\ CreateTodo(BaseInput, now, now)

EntityBatchCreate ==
    \E items \in SeqsUpTo({[todo |-> BaseInput, raises |-> FALSE]}, MaxBatch) :
        current_id + Len(items) <= MaxId
        /\ BatchCreateTodos(items, Ticks(Len(items), now))

EntityUpdate ==
    \E id \in 1 .. MaxId : \E u \in EntityUpdates :
        CanUpdate(id) /\ UpdateTodo(id, u, now, now)

EntityDelete == \E id \in 1 .. MaxId : DeleteTodo(id)

EntityBatchDelete ==
    \E ids \in SeqsUpTo(1 .. MaxId, MaxBatch) : BatchDeleteTodos(ids)

NextEntity ==
    \/ EntityCreate
    \/ EntityBatchCreate
    \/ EntityUpdate
    \/ EntityDelete
    \/ EntityBatchDelete

SpecEntity == Init /\ [][NextEntity]_vars

----------------------------------------------------------------------------
(* The page-walk specification: todos that differ in priority and due      *)
(* date, listed page by page under a priority or overdue filter or none,   *)
(* three sort keys and directions, and page sizes that split the result    *)
(* into several pages or keep it on one.                                   *)

WalkInputs ==
    {[BaseInput EXCEPT !.priority = "low"],
     [BaseInput EXCEPT !.priority = "high"],
     [BaseInput EXCEPT !.priority = "high", !.due_date = Some(0)]}

WalkFilters ==
    {DefaultParams,
     [DefaultParams EXCEPT !.priority = Some("high")],
     [DefaultParams EXCEPT !.is_overdue = Some(TRUE)]}

WalkSorts ==
    {<<"created_at", "desc">>, <<"due_date", "asc">>, <<"priority", "desc">>}

WalkPageSizes == {1, 2, 100}

WalkParams ==
    {[f EXCEPT !.sort_by = k[1], !.sort_order = k[2],
               !.page_size = sz, !.page = p] :
        f \in WalkFilters, k \in WalkSorts, sz \in WalkPageSizes,
        p \in 1 .. MaxWalkId}

WalkCreate ==
    \E todo \in WalkInputs : \E t \in Clock :
        current_id < MaxWalkId /\ CreateTodo(todo, t, t)

WalkList == \E params \in WalkParams : ListTodos(params, now)

NextWalk == WalkCreate \/ WalkList

SpecWalk == Init /\ [][NextWalk]_vars

----------------------------------------------------------------------------
(* The agreement specification: todos with and without a due date, pending *)
(* or completed, updated to completed or to an explicit null status, then  *)
(* counted by the statistics request and listed under the overdue filter   *)
(* alone or one status filter alone.                                       *)

AgreeInputs ==
    {[BaseInput EXCEPT !.status = s, !.due_date = d] :
        s \in {PENDING, COMPLETED}, d \in {None, Some(0)}}

AgreeUpdates ==
    {SetField(Unset, "status", Some(COMPLETED)),
     SetField(Unset, "status", None)}

AgreeParams ==
    {[DefaultParams EXCEPT !.is_overdue = Some(TRUE)]}
    \cup {[DefaultParams EXCEPT !.status = Some(s)] : s \in Range(Status)}

AgreeCreate ==
    \E todo \in AgreeInputs :
        current_id < MaxId /\ CreateTodo(todo, now, now)

AgreeUpdate ==
    \E id \in 1 .. MaxId : \E u \in AgreeUpdates :
        Has(todos, id) /\ CanUpdate(id) /\ UpdateTodo(id, u, now, now)

AgreeStats == \E t \in Clock : GetStats(t)

AgreeList == \E params \in AgreeParams : \E t \in Clock : ListTodos(params, t)

NextAgree == AgreeCreate \/ AgreeUpdate \/ AgreeStats \/ AgreeList

SpecAgree == Init /\ [][NextAgree]_vars

----------------------------------------------------------------------------
(* The read specification: todos that differ in priority, due date and     *)
(* subtasks, updated to completed or to an explicit null status or         *)
(* priority, deleted, and read by the three read requests: get of a stored *)
(* or a missing id, list under three sort keys with and without the        *)
(* overdue filter, and the statistics.                                     *)

ReadInputs ==
    {[BaseInput EXCEPT !.priority = "low"],
     [BaseInput EXCEPT !.priority = "high", !.due_date = Some(0),
                       !.subtasks = <<TRUE, FALSE>>]}

ReadUpdates ==
    {SetField(Unset, "status", Some(COMPLETED)),
     SetField(Unset, "status", None),
     SetField(Unset, "priority", None)}

ReadParams ==
    {[DefaultParams EXCEPT !.sort_by = k[1], !.sort_order = k[2],
                           !.is_overdue = o, !.page = p, !.page_size = sz] :
        k \in {<<"created_at", "desc">>, <<"due_date", "asc">>,
               <<"priority", "asc">>},
        o \in {None, Some(TRUE)}, p \in {1, 2}, sz \in {1, 20}}

ReadCreate ==
    \E todo \in ReadInputs :
        current_id < MaxId /\ CreateTodo(todo, now, now)

ReadUpdate ==
    \E id \in 1 .. MaxId : \E u \in ReadUpdates :
        Has(todos, id) /\ CanUpdate(id) /\ UpdateTodo(id, u, now, now)

ReadDelete == \E id \in 1 .. MaxId : Has(todos, id) /\ DeleteTodo(id)

ReadGet == \E id \in 1 .. MaxId : GetTodo(id)

ReadList == \E params \in ReadParams : ListTodos(params, now)

ReadStats == \E t \in Clock : GetStats(t)

NextRead ==
    \/ ReadCreate
    \/ ReadUpdate
    \/ ReadDelete
    \/ ReadGet
    \/ ReadList
    \/ ReadStats

SpecRead == Init /\ [][NextRead]_vars

----------------------------------------------------------------------------
(* Claims checked under Spec.                                              *)

(* compute_progress as the specification defines it, in integer            *)
(* arithmetic: 100 or 0 without subtasks, floor(100 * K / N) otherwise.    *)
ReferenceProgress(subtasks, status) ==
    IF subtasks = <<>>
    THEN IF status = Some(COMPLETED) THEN 100 ELSE 0
    ELSE (100 * CompletedCount(subtasks)) \div Len(subtasks)

(* C1: every stored todo has completed_at set if and only if its status is *)
(* completed now and it entered completed through an update transition; a  *)
(* todo created completed has completed_at unset.                          *)
C1_CompletedAtIffCompletedByUpdate ==
    \A i \in DOMAIN todos :
        (todos[i].completed_at # None)
            <=> (IsCompleted(todos[i]) /\ hist.via[todos[i].id] = "update")

(* C1 witness: one todo created completed (completed_at unset) beside one  *)
(* that an update moved into completed (completed_at set).                 *)
C1_Witness ==
    \E i, j \in DOMAIN todos :
        /\ IsCompleted(todos[i]) /\ hist.via[todos[i].id] = "create"
        /\ todos[i].completed_at = None /\ hist.updates[todos[i].id] > 0
        /\ IsCompleted(todos[j]) /\ hist.via[todos[j].id] = "update"
        /\ todos[j].completed_at # None

(* C2: every update of an existing todo sets completed_at to the time of   *)
(* the update on a transition into completed, clears it on a transition    *)
(* out of completed, and leaves it as it was otherwise.                    *)
C2_CompletedAtFollowsTransition ==
    [][(resp'.op = "update" /\ Has(todos, resp'.id)) =>
        LET old    == Lookup(todos, resp'.id)
            u      == resp'.data
            merged == IF "status" \in u.fields_set THEN u.status ELSE old.status
        IN  /\ Has(todos', resp'.id)
            /\ LET new == Lookup(todos', resp'.id)
               IN  IF ~IsCompleted(old) /\ merged = Some(COMPLETED)
                   THEN new.completed_at = Some(now')
                   ELSE IF IsCompleted(old) /\ merged # Some(COMPLETED)
                   THEN new.completed_at = None
                   ELSE new.completed_at = old.completed_at]_vars

(* C3: a todo is created with version 1, every successful update raises    *)
(* its version by exactly 1 and keeps created_at, no other operation       *)
(* changes the version, so version = 1 + the number of successful updates. *)
C3_VersionCountsUpdates ==
    /\ [](\A i \in DOMAIN todos :
            todos[i].metadata.version = 1 + hist.updates[todos[i].id])
    /\ [][\A id \in Ids(todos') :
            LET new == Lookup(todos', id)
            IN  IF ~Has(todos, id)
                THEN new.metadata.version = 1
                ELSE LET old == Lookup(todos, id)
                         updated == /\ resp'.op = "update"
                                    /\ resp'.code = "ok"
                                    /\ resp'.id = id
                     IN  /\ new.metadata.created_at = old.metadata.created_at
                         /\ new.metadata.version =
                              old.metadata.version + (IF updated THEN 1 ELSE 0)
          ]_vars

(* C3 witness: a todo that two successful updates brought to version 3.    *)
C3_Witness ==
    \E i \in DOMAIN todos :
        /\ hist.updates[todos[i].id] = 2
        /\ todos[i].metadata.version = 3
        /\ resp.op = "update" /\ resp.code = "ok" /\ resp.id = todos[i].id

(* C4: every newly stored todo gets an id greater than the id of every     *)
(* todo stored earlier, deleted ones included, and the id counter never    *)
(* decreases.                                                              *)
C4_IdsIncreaseAndAreNotReused ==
    [][/\ current_id' >= current_id
       /\ \A id \in Ids(todos') \ Ids(todos) :
            \A earlier \in hist.created : id > earlier]_vars

(* C4 witness: a create has just stored a todo after an earlier todo with  *)
(* a smaller id was deleted.                                               *)
C4_Witness ==
    /\ resp.op = "create"
    /\ Has(todos, resp.id)
    /\ \E d \in hist.created : ~Has(todos, d) /\ d < resp.id

(* C6: update on an id that is not stored returns NotFound and changes     *)
(* neither the stored todos nor the id counter.                            *)
C6_UpdateMissingChangesNothing ==
    [][(resp'.op = "update" /\ ~Has(todos, resp'.id)) =>
        /\ resp'.code = "not_found"
        /\ todos' = todos
        /\ current_id' = current_id]_vars

(* C6 witness: an update was answered NotFound while the store holds a     *)
(* todo and the id counter has advanced.                                   *)
C6_Witness ==
    /\ resp.op = "update" /\ resp.code = "not_found"
    /\ ~Has(todos, resp.id)
    /\ todos # <<>>
    /\ current_id > 0

(* C8: an update that supplies a subtasks list for an existing todo        *)
(* succeeds, stores the supplied subtasks, leaves progress_percent derived *)
(* from the merged subtasks and status, and bumps the version by 1.        *)
C8_UpdateWithSubtasksSucceeds ==
    [][(/\ resp'.op = "update"
        /\ Has(todos, resp'.id)
        /\ "subtasks" \in resp'.data.fields_set
        /\ ~IsNone(resp'.data.subtasks)) =>
        /\ resp'.code = "ok"
        /\ Has(todos', resp'.id)
        /\ LET old      == Lookup(todos, resp'.id)
               new      == Lookup(todos', resp'.id)
               supplied == Get(resp'.data.subtasks)
           IN  /\ ~IsNone(new.subtasks)
               /\ Len(Get(new.subtasks)) = Len(supplied)
               /\ \A k \in DOMAIN supplied :
                    Get(new.subtasks)[k].completed = supplied[k]
               /\ new.progress_percent =
                    ReferenceProgress(Get(new.subtasks), new.status)
               /\ new.metadata.version = old.metadata.version + 1]_vars

----------------------------------------------------------------------------
(* Claims checked under SpecProgress.                                      *)

SubtasksOf(todo) == IF IsNone(todo.subtasks) THEN <<>> ELSE Get(todo.subtasks)

(* C5: in every reachable state each stored todo's progress_percent equals *)
(* compute_progress of its current subtasks and status: 100 or 0 without   *)
(* subtasks, floor(100 * K / N) otherwise.                                 *)
C5_StoredProgressIsDerived ==
    \A i \in DOMAIN todos :
        todos[i].progress_percent =
            ReferenceProgress(SubtasksOf(todos[i]), todos[i].status)

(* C7: calculate_progress agrees with the integer reference function on    *)
(* every todo, and its result lies in 0 .. 100.                            *)
C7_ProgressAgreesWithReference ==
    \A i \in DOMAIN todos :
        /\ calculate_progress(todos[i]) \in 0 .. 100
        /\ calculate_progress(todos[i]) =
              IF SubtasksOf(todos[i]) = <<>>
              THEN IF IsCompleted(todos[i]) THEN 100 ELSE 0
              ELSE (100 * CompletedCount(SubtasksOf(todos[i])))
                      \div Len(SubtasksOf(todos[i]))

----------------------------------------------------------------------------
(* Claims checked under SpecBatch.                                         *)

(* The entries of s at the indices in K, in order.                         *)
RECURSIVE SubSeqAt(_, _, _)
SubSeqAt(s, K, i) ==
    IF i > Len(s) THEN <<>>
    ELSE (IF i \in K THEN <<s[i]>> ELSE <<>>) \o SubSeqAt(s, K, i + 1)

(* C10: batch_delete handles its ids in request order against the current *)
(* store: an id is deleted at its first occurrence if it was stored and    *)
(* reported not-found at every other occurrence; the two lists together    *)
(* have one entry per input id, total_deleted is the number deleted,       *)
(* afterwards no input id is stored, and every other todo and the id       *)
(* counter are unchanged.                                                  *)
C10_BatchDeleteInRequestOrder ==
    [][resp'.op = "batch_delete" =>
        LET ids == resp'.ids
            hit == {k \in DOMAIN ids :
                        /\ Has(todos, ids[k])
                        /\ \A j \in 1 .. k - 1 : ids[j] # ids[k]}
        IN  /\ resp'.deleted_ids = SubSeqAt(ids, hit, 1)
            /\ resp'.not_found_ids = SubSeqAt(ids, DOMAIN ids \ hit, 1)
            /\ Len(resp'.deleted_ids) + Len(resp'.not_found_ids) = Len(ids)
            /\ resp'.total_deleted = Len(resp'.deleted_ids)
            /\ \A k \in DOMAIN ids : ~Has(todos', ids[k])
            /\ todos' = SelectSeq(todos, LAMBDA t : t.id \notin Range(ids))
            /\ current_id' = current_id]_vars

(* C10 witness: a request [x, x, y] with only x stored was answered        *)
(* deleted_ids = [x], not_found_ids = [x, y], and another todo is left.    *)
C10_Witness ==
    /\ resp.op = "batch_delete"
    /\ \E x, y \in 1 .. MaxBatchId :
        /\ x # y
        /\ resp.ids = <<x, x, y>>
        /\ resp.deleted_ids = <<x>>
        /\ resp.not_found_ids = <<x, y>>
        /\ x \in hist.created
    /\ todos # <<>>

(* C11: batch_create handles its inputs in request order without           *)
(* atomicity: total_created + total_failed is the number of inputs, the    *)
(* failed list holds zero-based indexes of the request in increasing       *)
(* order, the todos stored before the request are all kept, created is in  *)
(* strictly increasing id order, and every todo in created is stored       *)
(* afterwards with version 1 and with the progress compute_progress        *)
(* derives from its subtasks and status.                                   *)
C11_BatchCreateIsIndependentPerItem ==
    [][resp'.op = "batch_create" =>
        LET created == resp'.created
            failed  == resp'.failed
        IN  /\ resp'.total_created + resp'.total_failed = resp'.n
            /\ resp'.total_created = Len(created)
            /\ resp'.total_failed = Len(failed)
            /\ \A k \in DOMAIN failed : failed[k] \in 0 .. resp'.n - 1
            /\ \A j, k \in DOMAIN failed : j < k => failed[j] < failed[k]
            /\ \A j, k \in DOMAIN created : j < k => created[j] < created[k]
            /\ \A k \in DOMAIN created : created[k] > current_id
            /\ SubSeq(todos', 1, Len(todos)) = todos
            /\ Len(todos') = Len(todos) + Len(created)
            /\ \A k \in DOMAIN created :
                    /\ Has(todos', created[k])
                    /\ todos'[Len(todos) + k].id = created[k]
                    /\ LET new == Lookup(todos', created[k])
                       IN  /\ new.metadata.version = 1
                           /\ new.progress_percent =
                                 ReferenceProgress(SubtasksOf(new), new.status)
       ]_vars

----------------------------------------------------------------------------
(* Claims checked under SpecDelete.                                        *)

(* C12: delete of a stored id removes exactly that todo and leaves every   *)
(* other stored todo as it was, also one whose parent_id is the deleted    *)
(* id; delete of an id that is not stored answers NotFound and changes     *)
(* neither the store nor the id counter; get of an id that was deleted     *)
(* answers NotFound, and no id that was ever stored is stored anew.        *)
C12_DeleteRemovesExactlyOne ==
    [][/\ resp'.op = "delete" =>
            IF Has(todos, resp'.id)
            THEN /\ resp'.code = "ok"
                 /\ ~Has(todos', resp'.id)
                 /\ \A i \in DOMAIN todos :
                        todos[i].id # resp'.id =>
                            /\ Has(todos', todos[i].id)
                            /\ Lookup(todos', todos[i].id) = todos[i]
                 /\ Len(todos') = Len(todos) - 1
                 /\ current_id' = current_id
            ELSE /\ resp'.code = "not_found"
                 /\ todos' = todos
                 /\ current_id' = current_id
       /\ (resp'.op = "get" /\ resp'.id \in hist.created \ Ids(todos)) =>
            resp'.code = "not_found"
       /\ \A id \in Ids(todos') \ Ids(todos) : id \notin hist.created
      ]_vars

(* C12 witness: a delete has removed a todo while the store keeps a todo   *)
(* whose parent_id is the deleted id.                                      *)
C12_Witness ==
    /\ resp.op = "delete" /\ resp.code = "ok"
    /\ ~Has(todos, resp.id)
    /\ \E i \in DOMAIN todos : todos[i].parent_id = Some(resp.id)

----------------------------------------------------------------------------
(* Claims checked under SpecMerge.                                         *)

(* C13: an update of a stored todo leaves every client field that the      *)
(* partial input does not supply as it was, keeps the todo's id and        *)
(* metadata.created_at, and changes no other stored todo; completed_at     *)
(* changes only when status is supplied.                                   *)
C13_UpdateIsFieldPresenceMerge ==
    [][(resp'.op = "update" /\ Has(todos, resp'.id)) =>
        /\ Len(todos') = Len(todos)
        /\ \A i \in DOMAIN todos :
                todos[i].id # resp'.id => todos'[i] = todos[i]
        /\ Has(todos', resp'.id)
        /\ LET old == Lookup(todos, resp'.id)
               new == Lookup(todos', resp'.id)
           IN  /\ \A f \in ClientFields \ resp'.data.fields_set :
                      new[f] = old[f]
               /\ new.id = old.id
               /\ new.metadata.created_at = old.metadata.created_at
               /\ new.completed_at # old.completed_at =>
                      "status" \in resp'.data.fields_set]_vars

(* C13 witness: an update that supplied only status has completed a todo   *)
(* that keeps its description, due date, subtasks and parent_id, beside    *)
(* another stored todo.                                                    *)
C13_Witness ==
    /\ resp.op = "update" /\ resp.code = "ok"
    /\ resp.data.fields_set = {"status"}
    /\ Len(todos) = 2
    /\ Has(todos, resp.id)
    /\ LET new == Lookup(todos, resp.id)
       IN  /\ new.completed_at # None
           /\ new.description # None
           /\ new.due_date # None
           /\ Truthy(new.subtasks)
           /\ new.parent_id # None
           /\ new.metadata.updated_at > new.metadata.created_at

----------------------------------------------------------------------------
(* Claims checked under SpecSort.                                          *)

(* The place of the todo with this id in the store's insertion order.      *)
PlaceOf(ts, id) == CHOOSE i \in DOMAIN ts : ts[i].id = id

(* C14: when list sorts by due_date, ascending order places every todo     *)
(* without a due date after every todo that has one, and descending order  *)
(* does not place a todo without a due date first when some listed todo    *)
(* has a due date.                                                         *)
C14_UndatedSortLast ==
    [][(/\ resp'.op = "list" /\ resp'.code = "ok"
        /\ resp'.params.sort_by = "due_date") =>
        LET items == resp'.items
            dated(k) == Lookup(todos, items[k]).due_date # None
        IN  /\ resp'.params.sort_order = "asc" =>
                \A j, k \in DOMAIN items : (dated(j) /\ ~dated(k)) => j < k
            /\ resp'.params.sort_order = "desc" =>
                ((\E k \in DOMAIN items : dated(k)) => dated(1))]_vars

(* C15: two listed todos with equal sort keys (the same priority, the same *)
(* due date or both without one, the same created_at) are listed in the    *)
(* store's insertion order, ascending and descending alike; a sort key     *)
(* other than due_date and priority orders the result by created_at.       *)
C15_SortIsStable ==
    [][(resp'.op = "list" /\ resp'.code = "ok") =>
        LET items   == resp'.items
            sort_by == resp'.params.sort_by
            todo(k) == Lookup(todos, items[k])
            tie(j, k) ==
                CASE sort_by = "due_date" -> todo(j).due_date = todo(k).due_date
                  [] sort_by = "priority" -> todo(j).priority = todo(k).priority
                  [] OTHER -> todo(j).metadata.created_at
                                = todo(k).metadata.created_at
        IN  /\ \A j, k \in DOMAIN items :
                    (j < k /\ tie(j, k)) =>
                        PlaceOf(todos, items[j]) < PlaceOf(todos, items[k])
            /\ sort_by \notin {"due_date", "priority"} =>
                    \A j, k \in DOMAIN items :
                        j < k =>
                            IF resp'.params.sort_order = "desc"
                            THEN todo(j).metadata.created_at
                                    >= todo(k).metadata.created_at
                            ELSE todo(j).metadata.created_at
                                    <= todo(k).metadata.created_at]_vars

(* C15 witness: a descending list by priority has returned three todos of  *)
(* which the two of equal priority come in insertion order after the       *)
(* third.                                                                  *)
C15_Witness ==
    /\ resp.op = "list" /\ resp.code = "ok"
    /\ resp.params.sort_by = "priority"
    /\ resp.params.sort_order = "desc"
    /\ Len(resp.items) = 3
    /\ Lookup(todos, resp.items[2]).priority
          = Lookup(todos, resp.items[3]).priority
    /\ Lookup(todos, resp.items[1]).priority
          # Lookup(todos, resp.items[2]).priority
    /\ resp.items[2] < resp.items[3]
    /\ resp.items[1] > resp.items[3]

----------------------------------------------------------------------------
(* Claims checked under SpecPage.                                          *)

(* The number of stored todos that match the status filter of params.      *)
MatchCount(ts, params) ==
    Cardinality({i \in DOMAIN ts :
                    params.status = None \/ ts[i].status = params.status})

(* ceil(a / b) for a >= 0 and b >= 1.                                      *)
CeilDiv(a, b) == CHOOSE k \in 0 .. a : k * b >= a /\ (k = 0 \/ (k - 1) * b < a)

(* C16: every list call with page >= 1 and 1 <= page_size <= 100 over T    *)
(* matching todos reports total = T, total_pages = ceil(T / page_size)     *)
(* (0 when T = 0), has_next exactly when page < total_pages, has_previous  *)
(* exactly when page > 1, and min(page_size, max(0, T - (page - 1) *       *)
(* page_size)) items.                                                      *)
C16_PageArithmetic ==
    [][(/\ resp'.op = "list"
        /\ resp'.params.page >= 1
        /\ resp'.params.page_size \in 1 .. 100) =>
        LET page      == resp'.params.page
            page_size == resp'.params.page_size
            T         == MatchCount(todos, resp'.params)
            left      == T - (page - 1) * page_size
        IN  /\ resp'.code = "ok"
            /\ resp'.total = T
            /\ resp'.total_pages = CeilDiv(T, page_size)
            /\ resp'.has_next = (page < resp'.total_pages)
            /\ resp'.has_previous = (page > 1)
            /\ Len(resp'.items)
                  = Min(page_size, IF left > 0 THEN left ELSE 0)]_vars

(* C16 witness: 25 matches with page_size 10: page 3 of 3 has 5 items and  *)
(* no next page.                                                           *)
C16_Witness ==
    /\ resp.op = "list" /\ resp.code = "ok"
    /\ resp.total = 25
    /\ resp.params.page_size = 10
    /\ resp.params.page = 3
    /\ resp.total_pages = 3
    /\ Len(resp.items) = 5
    /\ ~resp.has_next
    /\ resp.has_previous

(* C17: a list call for a page after the last one, any page when nothing   *)
(* matches included, is answered without error with no items, the total    *)
(* and total_pages of the matches, has_next false and has_previous exactly *)
(* when page > 1.                                                          *)
C17_PageBeyondLastIsEmpty ==
    [][(/\ resp'.op = "list"
        /\ resp'.params.page
              > CeilDiv(MatchCount(todos, resp'.params),
                        resp'.params.page_size)) =>
        /\ resp'.code = "ok"
        /\ resp'.items = <<>>
        /\ resp'.total = MatchCount(todos, resp'.params)
        /\ resp'.total_pages = CeilDiv(resp'.total, resp'.params.page_size)
        /\ resp'.has_next = FALSE
        /\ resp'.has_previous = (resp'.params.page > 1)]_vars

(* C17 witness: page 4 was requested where 25 todos match in 3 pages of    *)
(* 10, and the answer is empty.                                            *)
C17_Witness ==
    /\ resp.op = "list" /\ resp.code = "ok"
    /\ resp.params.page = 4
    /\ resp.params.page_size = 10
    /\ resp.total = 25
    /\ resp.total_pages = 3
    /\ resp.items = <<>>
    /\ resp.has_previous

----------------------------------------------------------------------------
(* Claims checked under SpecStats.                                         *)

(* The sum of f[x] over the elements x of the finite set S.                *)
RECURSIVE SumOver(_, _)
SumOver(f, S) ==
    IF S = {} THEN 0
    ELSE LET x == CHOOSE y \in S : TRUE IN f[x] + SumOver(f, S \ {x})

(* The stored todos whose completed_at lies in the 7 days that end at the  *)
(* instant at, both ends included.                                         *)
InTrailingWeek(ts, at) ==
    {i \in DOMAIN ts :
        /\ ts[i].completed_at # None
        /\ Get(ts[i].completed_at) >= at - Week
        /\ Get(ts[i].completed_at) <= at}

(* C18: completed_this_week is the number of stored todos whose            *)
(* completed_at lies in the 7 days ending at now, a completed_at of        *)
(* exactly now - 7 days included and an earlier one not; every todo it     *)
(* counts has status completed, so one moved out of completed is not       *)
(* counted.                                                                *)
C18_CompletedThisWeekIsTrailingWindow ==
    [][resp'.op = "stats" =>
        /\ resp'.code = "ok"
        /\ resp'.completed_this_week
              = Cardinality(InTrailingWeek(todos, now'))
        /\ \A i \in InTrailingWeek(todos, now') : IsCompleted(todos[i])
        /\ \A i \in DOMAIN todos :
                (~IsCompleted(todos[i]) /\ hist.updates[todos[i].id] >= 2) =>
                    i \notin InTrailingWeek(todos, now')]_vars

(* C19: every stats call reports average_completion_time_minutes null when *)
(* completed_this_week is 0 and otherwise the mean of completed_at -       *)
(* created_at in minutes over the todos counted; by_status has all five    *)
(* status values and by_priority all four priority values, and each map    *)
(* sums to total_todos, the number of stored todos.                        *)
C19_StatsAverageAndMaps ==
    [][resp'.op = "stats" =>
        /\ resp'.code = "ok"
        /\ LET counted == {i \in DOMAIN todos :
                              /\ todos[i].completed_at # None
                              /\ Get(todos[i].completed_at) >= now' - Week}
               minutes == [i \in counted |->
                              (Get(todos[i].completed_at)
                                 - todos[i].metadata.created_at) * MinutesPerTick]
               avg     == resp'.average_completion_time_minutes
           IN  /\ resp'.completed_this_week = Cardinality(counted)
               /\ resp'.completed_this_week = 0 => avg = None
               /\ resp'.completed_this_week > 0 =>
                      /\ avg # None
                      /\ Get(avg)[2] > 0
                      /\ Get(avg)[1] * Cardinality(counted)
                            = SumOver(minutes, counted) * Get(avg)[2]
        /\ DOMAIN resp'.by_status = Range(Status)
        /\ Cardinality(DOMAIN resp'.by_status) = 5
        /\ DOMAIN resp'.by_priority = Range(Priority)
        /\ Cardinality(DOMAIN resp'.by_priority) = 4
        /\ resp'.total_todos = Len(todos)
        /\ SumOver(resp'.by_status, DOMAIN resp'.by_status) = resp'.total_todos
        /\ SumOver(resp'.by_priority, DOMAIN resp'.by_priority)
              = resp'.total_todos]_vars

----------------------------------------------------------------------------
(* Claims checked under SpecEntity.                                        *)

(* C20: every stored todo has a status among the five status values, a     *)
(* priority among the four priority values and a title that is a           *)
(* non-empty string.                                                       *)
C20_StoredTodosKeepEntityConstraints ==
    \A i \in DOMAIN todos :
        /\ todos[i].status \in {Some(st) : st \in Range(Status)}
        /\ todos[i].priority \in {Some(pr) : pr \in Range(Priority)}
        /\ todos[i].title # None
        /\ Get(todos[i].title) # <<>>

----------------------------------------------------------------------------
(* Claims checked under SpecWalk.                                          *)

(* Lines 448-453: the items of the page that params asks for.              *)
PageItems(ts, params, at) ==
    LET result == Sorted(Filtered(ts, params, at),
                         params.sort_by, params.sort_order)
        start  == (params.page - 1) * params.page_size
        end    == start + params.page_size
    IN  Slice(result, start, end)

(* The items of pages 1 .. n of the query params, in page order.           *)
RECURSIVE ConcatPages(_, _, _, _)
ConcatPages(ts, params, at, n) ==
    IF n = 0 THEN <<>>
    ELSE ConcatPages(ts, params, at, n - 1)
            \o PageItems(ts, [params EXCEPT !.page = n], at)

(* C21: whenever list has answered a query, the pages 1 .. total_pages of  *)
(* that query over the same store at the same instant, concatenated in     *)
(* page order, are exactly the sorted list of the matching todos: every    *)
(* matching todo is on exactly one page, no other todo is on any page,     *)
(* and the pages hold total items altogether.  The answer itself is the    *)
(* page it was asked for.  A list request changes neither the store nor,   *)
(* after the reading it filters by, the clock, so the state it leaves      *)
(* holds the store and the instant it answered from.                       *)
C21_PagesPartitionTheResult ==
    (resp.op = "list" /\ resp.code = "ok") =>
        LET q        == resp.params
            matching == Filtered(todos, q, now)
            whole    == Sorted(matching, q.sort_by, q.sort_order)
            pages    == ConcatPages(todos, q, now, resp.total_pages)
            page     == PageItems(todos, q, now)
        IN  /\ resp.items = [i \in DOMAIN page |-> page[i].id]
            /\ pages = whole
            /\ Len(pages) = resp.total
            /\ \A id \in Ids(matching) :
                  Cardinality({i \in DOMAIN pages : pages[i].id = id}) = 1
            /\ \A i \in DOMAIN pages : pages[i].id \in Ids(matching)

(* C21 witness: three stored todos, two of them of high priority; the      *)
(* query for high priority sorted by due date with page_size 1 has two     *)
(* pages, and page 2 was answered with the one todo that page 1 lacks.     *)
C21_Witness ==
    /\ resp.op = "list" /\ resp.code = "ok"
    /\ Len(todos) = 3
    /\ resp.params.priority = Some("high")
    /\ resp.params.sort_by = "due_date"
    /\ resp.params.page_size = 1
    /\ resp.params.page = 2
    /\ resp.total = 2
    /\ resp.total_pages = 2
    /\ Len(resp.items) = 1
    /\ resp.items # [i \in {1} |->
                        PageItems(todos, [resp.params EXCEPT !.page = 1],
                                  now)[i].id]

----------------------------------------------------------------------------
(* Claims checked under SpecAgree.                                         *)

(* Line 449: the total that list reports for params at the instant at.     *)
ListTotal(ts, params, at) ==
    Len(Sorted(Filtered(ts, params, at), params.sort_by, params.sort_order))

(* C22: every statistics request over a reachable store is answered, its   *)
(* overdue_count is the total that list reports over the same store at the *)
(* same instant with only the overdue=true filter, and its by_status[s] is *)
(* the total that list reports with only status=s, for every status s.     *)
(* The total of a list answer is ListTotal of its query.  Neither request  *)
(* changes the store, so the state it leaves holds the store and the       *)
(* instant it answered from.                                               *)
C22_StatsAndListAgree ==
    /\ (resp.op = "list" /\ resp.code = "ok") =>
           resp.total = ListTotal(todos, resp.params, now)
    /\ resp.op = "stats" =>
           /\ resp.code = "ok"
           /\ resp.overdue_count
                 = ListTotal(todos,
                             [DefaultParams EXCEPT !.is_overdue = Some(TRUE)],
                             now)
           /\ \A s \in Range(Status) :
                 resp.by_status[s]
                    = ListTotal(todos,
                                [DefaultParams EXCEPT !.status = Some(s)], now)

----------------------------------------------------------------------------
(* Claims checked under SpecRead.                                          *)

(* C23: a get, list or statistics request, whatever its arguments and      *)
(* whether it answers, reports NotFound or raises, leaves the store as it  *)
(* was, with the same todos in the same insertion order and every field    *)
(* of each of them (metadata.version, updated_at, completed_at and         *)
(* progress_percent included), and leaves the id counter as it was.        *)
C23_ReadsChangeNothing ==
    [][resp'.op \in {"get", "list", "stats"} =>
        /\ todos' = todos
        /\ current_id' = current_id]_vars

(* C23 witness: two todos are stored in the order 1, 2, the second one     *)
(* with half of its subtasks done, and list has just answered with todo 2  *)
(* ahead of todo 1.                                                        *)
C23_Witness ==
    /\ resp.op = "list" /\ resp.code = "ok"
    /\ resp.items = <<2, 1>>
    /\ Len(todos) = 2
    /\ todos[1].id = 1 /\ todos[2].id = 2
    /\ todos[2].progress_percent = 50
    /\ current_id = 2

----------------------------------------------------------------------------
(* Claims checked under SpecQuery.                                         *)

(* The ids of the stored todos that pass the filters of params other than  *)
(* the overdue filter.                                                     *)
PassingOtherFilters(ts, params, at) ==
    Ids(Filtered(ts, [params EXCEPT !.is_overdue = None], at))

(* C9: with overdue=true list returns exactly the todos passing the other  *)
(* filters that have a due date strictly before now and are not completed; *)
(* with overdue=false exactly those that have a due date and are not       *)
(* overdue; a todo without a due date is in neither result, and the two    *)
(* results are disjoint and together are the todos with a due date.        *)
C9_OverdueFilterIsAsymmetric ==
    [][(/\ resp'.op = "list"
        /\ resp'.code = "ok"
        /\ ~IsNone(resp'.params.is_overdue)) =>
        LET params == resp'.params
            base   == {t \in Range(todos) :
                          t.id \in PassingOtherFilters(todos, params, now')}
            late   == {t \in base : /\ t.due_date # None
                                    /\ Get(t.due_date) < now'
                                    /\ t.status # Some(COMPLETED)}
            dated  == {t \in base : t.due_date # None}
            got    == Range(resp'.items)
            branch(b) == Ids(Filtered(todos, [params EXCEPT !.is_overdue = Some(b)],
                                      now'))
        IN  /\ resp'.total = Len(resp'.items)
            /\ Cardinality(got) = Len(resp'.items)
            /\ Get(params.is_overdue) => got = {t.id : t \in late}
            /\ ~Get(params.is_overdue) => got = {t.id : t \in dated \ late}
            /\ \A t \in Range(todos) : t.due_date = None => t.id \notin got
            /\ got = branch(Get(params.is_overdue))
            /\ branch(TRUE) \cap branch(FALSE) = {}
            /\ branch(TRUE) \cup branch(FALSE) = {t.id : t \in dated}]_vars

(* C9 witness: list with overdue=false has returned exactly a completed    *)
(* todo whose due date is past, while the store also holds a todo without  *)
(* a due date.                                                             *)
C9_Witness ==
    /\ resp.op = "list" /\ resp.code = "ok"
    /\ resp.params.is_overdue = Some(FALSE)
    /\ resp.params.status = None
    /\ Len(resp.items) = 1
    /\ Len(todos) = 2
    /\ \E i, j \in DOMAIN todos :
        /\ todos[i].id = resp.items[1]
        /\ todos[i].due_date # None
        /\ Get(todos[i].due_date) < now
        /\ IsCompleted(todos[i])
        /\ todos[j].due_date = None

====
